---- MODULE Spec2Model ----
(***************************************************************************)
(* Ingredient extraction pipeline of the recipe agent                      *)
(* (src/src/mcp_tools/ingredients.py, src/src/models/models.py) and the    *)
(* older synchronous pre-hook of src/ingredients.py.                       *)
(*                                                                         *)
(* Strings the code inspects are sequences of words; confidence scores are *)
(* integer percentages (0.95 is 95); byte buffers are a signature and a    *)
(* length.                                                                 *)
(***************************************************************************)
EXTENDS Integers, Sequences, FiniteSets, TLC

\* ------------------------------------------------------------------ bounds

\* Largest max_retries handed to extract_ingredients_with_retries.
MaxRetries == 4

\* Largest number of images in one request.
MaxImages == 2

\* Longest ingredient list handed directly to the filter or the constructor.
MaxListLen == 2

MaxTextLen == 3

MaxConnectRetries == 4

MaxHookCalls == 14

\* ------------------------------------------------------- program constants

MIN_INGREDIENT_CONFIDENCE == 70

MAX_IMAGE_SIZE_MB == 5

COMPRESS_IMG_THRESHOLD_KB == 300

COMPRESS_IMG == TRUE

DefaultMaxRetries == 3

TOOL_CALL_LIMIT == 12

InitialDelay == 1

None == [kind |-> "none"]

\* A str value and a list value (a field that holds either one or None).
Str(words) == [kind |-> "str", items |-> words]

List(items) == [kind |-> "list", items |-> items]

\* ------------------------------------------------------------------ strings

\* str.lower() on the words that occur in the model's inputs.
Lower(w) ==
    CASE w = "Connection" -> "connection"
      [] w = "Timeout" -> "timeout"
      [] w = "Basil" -> "basil"
      [] w = "Tomato" -> "tomato"
      [] OTHER -> w

\* str.strip() on the words that occur in the model's inputs.
Strip(w) ==
    CASE w = " basil " -> "basil"
      [] OTHER -> w

Range(s) == {s[i] : i \in DOMAIN s}

\* Error texts of exceptions, as word sequences.
TransientErrors ==
    { <<"Connection", "timeout">>,
      <<"503", "Service", "Unavailable">> }

PermanentErrors ==
    { <<"Invalid", "API", "key">> }

ErrorTexts == TransientErrors \cup PermanentErrors

TransientKeywords ==
    {"timeout", "connection", "429", "500", "503", "502", "retryable"}

is_transient_always(error_text) == TRUE

\* any(keyword in str(e).lower() for keyword in [...])
is_transient(error_text) ==
    \E w \in Range(error_text) : Lower(w) \in TransientKeywords

\* ---------------------------------------------------- extraction results

\* An IngredientDetectionOutput.
Output(ings, scores, descr) ==
    [kind |-> "result", ingredients |-> ings,
     confidence_scores |-> scores, image_description |-> descr]

Raise(text) == [kind |-> "raise", text |-> text]

SampleOutput == Output(<<"tomato">>, [n \in {"tomato"} |-> 95], None)

\* What a stubbed extractor hands the retry controller.
MockOutcomes ==
    {SampleOutput, None} \cup {Raise(t) : t \in ErrorTexts}

\* ----------------------------------------------------------- image bytes

\* A byte buffer: the format its leading bytes announce, and its length.
Bytes(sig, len) == [kind |-> "bytes", sig |-> sig, len |-> len]

MaxImageBytes == MAX_IMAGE_SIZE_MB * 1024 * 1024

PngSmall == Bytes("png", 16)

GifSmall == Bytes("gif", 6)

PngOversize == Bytes("png", MaxImageBytes + 1)

GifOversize == Bytes("gif", MaxImageBytes + 1)

EmptyBytes == Bytes("unknown", 0)

\* An image reference: an http(s) URL with what fetching it meets ("ok": a
\* 200 response, "status": a response with a non-success status, "error": a
\* network error or timeout) and the body of the response, or a data URI /
\* plain base64 string that decodes (or not) to a payload.
UrlSource(net, payload) ==
    [scheme |-> "http", net |-> net, wellformed |-> TRUE, payload |-> payload]

DataUriSource(wellformed, payload) ==
    [scheme |-> "data", net |-> "none", wellformed |-> wellformed, payload |-> payload]

Base64Source(wellformed, payload) ==
    [scheme |-> "base64", net |-> "none", wellformed |-> wellformed, payload |-> payload]

\* async fetch_image_bytes(image_source) for a string source: for a URL,
\* session.get and response.read() of whatever response arrives (the status
\* is not looked at); an exception of either becomes None.
fetch_image_bytes(src) ==
    IF src.scheme = "data"
    THEN IF src.wellformed THEN src.payload ELSE None
    ELSE IF src.net \in {"ok", "status"} THEN src.payload ELSE None

\* async _get_image_bytes_from_source(image_source) for a string source.
get_image_bytes_from_source(src) ==
    IF src.scheme \in {"http", "data"}
    THEN fetch_image_bytes(src)
    ELSE IF src.wellformed THEN src.payload ELSE None

\* `not image_bytes`: None or an empty buffer.
NotBytes(b) == b = None \/ b.len = 0

validate_image_format_any(b) == TRUE

validate_image_format(b) == b.sig \in {"jpeg", "png"}

validate_image_size_unlimited(b) == TRUE

validate_image_size_at_or_above(b, max_mb) == ~(b.len >= max_mb * 1024 * 1024)

\* validate_image_size(image_bytes) with config.MAX_IMAGE_SIZE_MB at max_mb:
\* size_mb = len / (1024 * 1024), and `size_mb > max_mb` fails.
validate_image_size_under(b, max_mb) == ~(b.len > max_mb * 1024 * 1024)

validate_image_size(b) == validate_image_size_under(b, MAX_IMAGE_SIZE_MB)

\* compress_image(image_bytes): buffers under the threshold are returned as
\* they are; the others are re-encoded as JPEG when Pillow decodes them
\* (the new length is not tracked), and returned unchanged when it fails.
compress_image(b, decodes) ==
    IF b.len < COMPRESS_IMG_THRESHOLD_KB * 1024 \/ ~decodes
    THEN b
    ELSE Bytes("jpeg", b.len)

\* ------------------------------------------------------ inference output

\* The vision response text, as tokens: prose words and JSON objects.
Prose(w) == [t |-> "prose", w |-> w]

Json(ings, scores) ==
    [t |-> "json", ingredients |-> ings, confidence_scores |-> scores]

\* A JSON object that also carries an image_description.
JsonDescribed(ings, scores, descr) ==
    [t |-> "json", ingredients |-> ings, confidence_scores |-> scores,
     image_description |-> descr]

Scores1(a, x) == [n \in {a} |-> x]

Scores2(a, x, b, y) == [n \in {a, b} |-> IF n = a THEN x ELSE y]

RespTomatoBasil ==
    << Json(<<"tomato", "basil">>, Scores2("tomato", 95, "basil", 88)) >>

RespBasilMozzarella ==
    << Prose("Here"),
       Json(<<"basil", "mozzarella">>, Scores2("basil", 90, "mozzarella", 92)),
       Prose("Enjoy") >>

RespBasilLow ==
    << Json(<<"tomato", "basil">>, Scores2("tomato", 95, "basil", 60)) >>

RespAllLow == << Json(<<"basil">>, Scores1("basil", 60)) >>

RespNoJson == << Prose("Sorry") >>

RespDescribed ==
    << JsonDescribed(<<"tomato">>, Scores1("tomato", 95),
                     Str(<<"Fresh", "tomatoes">>)) >>

\* An answer that names an ingredient with a capital letter, and one that
\* names an ingredient twice.
RespMixedCase == << Json(<<"Tomato">>, Scores1("Tomato", 95)) >>

RespDuplicate == << Json(<<"tomato", "tomato">>, Scores1("tomato", 95)) >>

Responses ==
    {RespTomatoBasil, RespBasilMozzarella, RespBasilLow, RespAllLow, RespNoJson,
     RespDescribed, RespMixedCase, RespDuplicate}

Text(r) == [kind |-> "text", text |-> r]

\* What one call of client.models.generate_content can end in.
InferenceOutcomes ==
    {Text(r) : r \in Responses} \cup {Raise(t) : t \in ErrorTexts}

OpensBrace(tok) == tok.t \in {"json", "lbrace"}

ClosesBrace(tok) == tok.t \in {"json", "rbrace"}

\* json.loads(response_text): the whole text is one JSON object.
parse_json_direct(text) ==
    IF Len(text) = 1 /\ text[1].t = "json" THEN text[1] ELSE None

\* re.search(r"\{.*\}", text, re.DOTALL), then json.loads of the match: the
\* span from the first opening brace to the last closing brace.
parse_json_regex(text) ==
    LET opens == {i \in DOMAIN text : OpensBrace(text[i])}
        first == CHOOSE i \in opens : \A j \in opens : i <= j
        closes == {i \in DOMAIN text : ClosesBrace(text[i]) /\ i >= first}
        last == CHOOSE i \in closes : \A j \in closes : i >= j
    IN  IF opens = {} THEN None
        ELSE IF closes = {} THEN None
        ELSE IF first = last /\ text[first].t = "json" THEN text[first]
        ELSE None

GetDefaultOne(f, k, default) == IF k \in DOMAIN f THEN f[k] ELSE 100

Get(f, k, default) == IF k \in DOMAIN f THEN f[k] ELSE default

\* IngredientDetectionOutput.validate_confidence_scores: every score in
\* (0.0, 1.0], the keys stripped and lowercased.
validate_confidence_scores(v) ==
    IF \E k \in DOMAIN v : ~(0 < v[k] /\ v[k] <= 100)
    THEN None
    ELSE [k \in {Lower(Strip(x)) : x \in DOMAIN v} |->
             v[CHOOSE x \in DOMAIN v : Lower(Strip(x)) = k]]

\* IngredientDetectionOutput(...): the field constraints and the two
\* validators; None stands for the ValidationError.
IngredientDetectionOutput(ings, scores, descr) ==
    LET stripped == [i \in DOMAIN ings |-> Strip(ings[i])]
        validated == validate_confidence_scores(scores)
    IN  IF Len(ings) < 1 \/ Len(ings) > 50 THEN None
        ELSE IF validated = None THEN None
        ELSE IF ~({Lower(n) : n \in Range(stripped)}
                     \subseteq {Lower(k) : k \in DOMAIN validated})
        THEN None
        ELSE Output(stripped, validated, descr)

\* parse_gemini_response(response_text)
parse_gemini_response(text) ==
    LET direct == parse_json_direct(text)
        parsed == IF direct = None THEN parse_json_regex(text) ELSE direct
    IN  IF parsed = None THEN None
        ELSE IngredientDetectionOutput(
                 parsed.ingredients, parsed.confidence_scores,
                 Get(parsed, "image_description", None))

extract_propagates_exception(io) ==
    IF io.kind = "raise" THEN io ELSE parse_gemini_response(io.text)

\* async extract_ingredients_from_image(image_bytes), the inference call
\* ending in `io`: every exception becomes None.
extract_ingredients_from_image(io) ==
    IF io.kind = "raise" THEN None ELSE parse_gemini_response(io.text)

filter_keeps_all(ings, scores, min_confidence) == ings

filter_strictly_above(ings, scores, min_confidence) ==
    LET keep(n) == Get(scores, n, 0) > min_confidence
    IN  SelectSeq(ings, keep)

\* The list comprehension of filter_ingredients_by_confidence, with
\* config.MIN_INGREDIENT_CONFIDENCE at min_confidence.
filter_by_confidence(ings, scores, min_confidence) ==
    LET keep(n) == Get(scores, n, 0) >= min_confidence
    IN  SelectSeq(ings, keep)

\* filter_ingredients_by_confidence(ingredients, confidence_scores)
filter_ingredients_by_confidence(ings, scores) ==
    filter_by_confidence(ings, scores, MIN_INGREDIENT_CONFIDENCE)

\* --------------------------------------------------------------- the state

VARIABLES
    entry,          \* which entry point this run exercises
    rcPc,           \* extract_ingredients_with_retries: "idle", "loop", "done"
    max_retries,    \* its argument
    retry_count,    \* its local
    delay_seconds,  \* its local
    extractLog,     \* outcomes of the extractor calls it made, in order
    sleeps,         \* the delays it slept, in order
    rcResult,       \* what it returned
    inferenceLog,   \* outcomes of the vision inference calls made, in order
    toolPc,         \* detect_ingredients_tool: "idle", "extracting", "returned", "raised"
    toolSource,     \* its argument image_data
    toolSent,       \* the bytes it hands to the extractor
    toolError,      \* the message of the ValueError it raised
    toolOutput,     \* the IngredientDetectionOutput it returned
    hookPc,         \* extract_ingredients_pre_hook: "idle", "gather" ("loop" in the
                    \* synchronous hook), "returned", "raised"
    message,        \* input_data.message, words of text (or None)
    images,         \* input_data.images, a list of image references (or None)
    messageIn,      \* input_data.message when the hook was called
    imagesIn,       \* input_data.images when the hook was called
    taskPc,         \* per image, _process_single_image: "resolve", "extract", "done", "raised"
    taskResult,     \* per image, what its task returned
    taskInference,  \* per image, the outcomes of the inference calls of its task
    taskSent,       \* per image, the bytes its task hands to the extractor
    finished,       \* the image indexes in the order their tasks ended
    unique_ingredients,  \* the hook's local unique_ingredients
    callPc,         \* a direct call of a pure function: "idle", then what was called
    callArgs,       \* its arguments
    callOut,        \* what it returned, one entry per call
    mcpPc,          \* SpoonacularMCP: "new", "invalid", "idle" (constructed),
                    \* "connecting" (in initialize), "returned", "raised"
    mcp_max_retries,  \* self.max_retries
    retry_delays,   \* self.retry_delays
    attempt,        \* the loop variable of initialize
    connectLog,     \* outcomes of the MCPTools constructions, in order
    mcpSleeps,      \* the delays initialize slept, in order
    mcpError,       \* the exception initialize raised
    tool_call_count,  \* session_state["tool_call_count"]
    recipes_found,  \* session_state["recipes_found"]
    hookCalls,      \* invocations of track_state_tool_hook so far
    executions,     \* executions of wrapped tool functions so far
    trackLast       \* the last invocation: the count it read, how often it ran
                    \* the wrapped function, and how it ended

retryVars ==
    <<rcPc, max_retries, retry_count, delay_seconds, extractLog, sleeps, rcResult>>

toolVars == <<inferenceLog, toolPc, toolSource, toolSent, toolError, toolOutput>>

hookVars ==
    <<hookPc, message, images, messageIn, imagesIn, taskPc, taskResult,
      taskInference, taskSent, finished, unique_ingredients>>

callVars == <<callPc, callArgs, callOut>>

mcpVars ==
    <<mcpPc, mcp_max_retries, retry_delays, attempt, connectLog, mcpSleeps, mcpError>>

trackVars == <<tool_call_count, recipes_found, hookCalls, executions, trackLast>>

vars == <<entry, retryVars, toolVars, hookVars, callVars, mcpVars, trackVars>>

\* ------------------------------------------------------ retry controller

WhileCondOffByOne(rc, mr) == rc <= mr

\* while retry_count < max_retries
WhileCond(rc, mr) == rc < mr

SleepAfterNoneAlways(rc, mr) == TRUE

\* if retry_count < max_retries (after the increment of the None branch)
SleepAfterNone(rc, mr) == rc < mr

RetryTransientOffByOne(transient, rc, mr) == transient /\ rc < mr

\* if is_transient and retry_count < max_retries - 1
RetryTransient(transient, rc, mr) == transient /\ rc < mr - 1

BackoffLinear(d) == d + 1

\* delay_seconds *= 2
Backoff(d) == d * 2

\* Entry into extract_ingredients_with_retries(image_bytes, max_retries=m).
RetryEnter(m) ==
    /\ max_retries' = m
    /\ retry_count' = 0
    /\ delay_seconds' = InitialDelay
    /\ extractLog' = <<>>
    /\ sleeps' = <<>>
    /\ rcResult' = None
    /\ rcPc' = "loop"

\* One pass through the loop body, the extractor call ending in outcome o.
RetryIteration(o) ==
    /\ rcPc = "loop"
    /\ WhileCond(retry_count, max_retries)
    /\ extractLog' = Append(extractLog, o)
    /\ UNCHANGED max_retries
    /\ IF o.kind = "result"
       THEN /\ rcResult' = o
            /\ rcPc' = "done"
            /\ UNCHANGED <<retry_count, delay_seconds, sleeps>>
       ELSE IF o.kind = "none"
       THEN /\ retry_count' = retry_count + 1
            /\ IF SleepAfterNone(retry_count + 1, max_retries)
               THEN /\ sleeps' = Append(sleeps, delay_seconds)
                    /\ delay_seconds' = Backoff(delay_seconds)
               ELSE UNCHANGED <<sleeps, delay_seconds>>
            /\ UNCHANGED <<rcPc, rcResult>>
       ELSE IF RetryTransient(is_transient(o.text), retry_count, max_retries)
       THEN /\ retry_count' = retry_count + 1
            /\ sleeps' = Append(sleeps, delay_seconds)
            /\ delay_seconds' = Backoff(delay_seconds)
            /\ UNCHANGED <<rcPc, rcResult>>
       ELSE /\ rcResult' = None
            /\ rcPc' = "done"
            /\ UNCHANGED <<retry_count, delay_seconds, sleeps>>

\* The loop condition fails: log the exhaustion and return None.
RetryExhausted ==
    /\ rcPc = "loop"
    /\ ~WhileCond(retry_count, max_retries)
    /\ rcResult' = None
    /\ rcPc' = "done"
    /\ UNCHANGED <<max_retries, retry_count, delay_seconds, extractLog, sleeps>>

\* ----------------------------- the retry controller over a stub extractor

RetryCall ==
    /\ entry = "retry"
    /\ rcPc = "idle"
    /\ \E m \in 1..MaxRetries : RetryEnter(m)
    /\ UNCHANGED <<entry, callVars, mcpVars, trackVars, toolVars, hookVars>>

RetryMockAttempt ==
    /\ entry = "retry"
    /\ \E o \in MockOutcomes : RetryIteration(o)
    /\ UNCHANGED <<entry, callVars, mcpVars, trackVars, toolVars, hookVars>>

RetryMockExhausted ==
    /\ entry = "retry"
    /\ RetryExhausted
    /\ UNCHANGED <<entry, callVars, mcpVars, trackVars, toolVars, hookVars>>

InitRetryVars ==
    /\ rcPc = "idle"
    /\ max_retries = DefaultMaxRetries
    /\ retry_count = 0
    /\ delay_seconds = InitialDelay
    /\ extractLog = <<>>
    /\ sleeps = <<>>
    /\ rcResult = None

InitToolVars ==
    /\ inferenceLog = <<>>
    /\ toolPc = "idle"
    /\ toolSource = None
    /\ toolSent = None
    /\ toolError = "none"
    /\ toolOutput = None

InitCallVars ==
    /\ callPc = "idle"
    /\ callArgs = None
    /\ callOut = <<>>

InitMcpVars ==
    /\ mcpPc = "new"
    /\ mcp_max_retries = 0
    /\ retry_delays = <<>>
    /\ attempt = 0
    /\ connectLog = <<>>
    /\ mcpSleeps = <<>>
    /\ mcpError = "none"

InitTrackVars ==
    /\ tool_call_count = 0
    /\ recipes_found = 0
    /\ hookCalls = 0
    /\ executions = 0
    /\ trackLast = None

InitHookVars ==
    /\ hookPc = "idle"
    /\ message = None
    /\ images = None
    /\ messageIn = None
    /\ imagesIn = None
    /\ taskPc = <<>>
    /\ taskResult = <<>>
    /\ taskInference = <<>>
    /\ taskSent = <<>>
    /\ finished = <<>>
    /\ unique_ingredients = <<>>

RetryInit ==
    /\ entry = "retry"
    /\ InitRetryVars
    /\ InitToolVars
    /\ InitHookVars
    /\ InitCallVars
    /\ InitMcpVars
    /\ InitTrackVars

RetryNext == RetryCall \/ RetryMockAttempt \/ RetryMockExhausted

RetrySpec == RetryInit /\ [][RetryNext]_vars

RetryFairSpec == RetrySpec /\ WF_vars(RetryNext)

\* ------------------------------------------------- the on-demand adapter

ToolSources ==
    { UrlSource("ok", PngSmall),
      UrlSource("error", EmptyBytes),
      UrlSource("status", Bytes("html", 1256)),
      UrlSource("status", PngSmall),
      DataUriSource(TRUE, GifSmall),
      DataUriSource(FALSE, EmptyBytes),
      Base64Source(TRUE, PngOversize),
      Base64Source(TRUE, GifOversize),
      Base64Source(TRUE, Bytes("jpeg", 400 * 1024)) }

ErrCouldNotRetrieve == "Could not retrieve image bytes from provided data"

ErrInvalidFormat == "Invalid image format. Only JPEG and PNG are supported."

ErrTooLarge == "Image too large. Maximum size is 5MB"

ErrFailedToExtract ==
    "Failed to extract ingredients from image. Please try another image."

ErrNoIngredients ==
    "No ingredients detected with sufficient confidence. Please try another image."

ErrDetectionFailed == "Ingredient detection failed: "

ToolRaise(msg) ==
    /\ toolPc' = "raised"
    /\ toolError' = msg
    /\ UNCHANGED toolOutput

\* detect_ingredients_tool(image_data) up to its call of the retry
\* controller: resolve, validate format, validate size, compress.
ToolInvoke ==
    /\ entry = "tool"
    /\ toolPc = "idle"
    /\ \E src \in ToolSources :
        LET b == get_image_bytes_from_source(src) IN
        /\ toolSource' = src
        /\ IF NotBytes(b)
           THEN ToolRaise(ErrCouldNotRetrieve) /\ UNCHANGED <<toolSent, retryVars>>
           ELSE IF ~validate_image_format(b)
           THEN ToolRaise(ErrInvalidFormat) /\ UNCHANGED <<toolSent, retryVars>>
           ELSE IF ~validate_image_size(b)
           THEN ToolRaise(ErrTooLarge) /\ UNCHANGED <<toolSent, retryVars>>
           ELSE /\ \E decodes \in BOOLEAN :
                     toolSent' = IF COMPRESS_IMG THEN compress_image(b, decodes) ELSE b
                /\ RetryEnter(DefaultMaxRetries)
                /\ toolPc' = "extracting"
                /\ UNCHANGED <<toolError, toolOutput>>
    /\ UNCHANGED <<entry, callVars, mcpVars, trackVars, inferenceLog, hookVars>>

\* One pass of the retry loop inside the adapter: the extractor is
\* extract_ingredients_from_image, which makes one inference call.
ToolAttempt ==
    /\ entry = "tool"
    /\ toolPc = "extracting"
    /\ \E io \in InferenceOutcomes :
        /\ inferenceLog' = Append(inferenceLog, io)
        /\ RetryIteration(extract_ingredients_from_image(io))
    /\ UNCHANGED <<entry, callVars, mcpVars, trackVars, toolPc, toolSource, toolSent, toolError, toolOutput, hookVars>>

ToolRetryExhausted ==
    /\ entry = "tool"
    /\ toolPc = "extracting"
    /\ RetryExhausted
    /\ UNCHANGED <<entry, callVars, mcpVars, trackVars, toolVars, hookVars>>

\* detect_ingredients_tool after the retry controller returned: filter by
\* confidence and build the result, or raise.
ToolFinish ==
    /\ entry = "tool"
    /\ toolPc = "extracting"
    /\ rcPc = "done"
    /\ IF rcResult = None
       THEN ToolRaise(ErrFailedToExtract)
       ELSE LET ings == filter_ingredients_by_confidence(
                            rcResult.ingredients, rcResult.confidence_scores)
                out == IngredientDetectionOutput(
                           ings,
                           [n \in Range(ings) |-> rcResult.confidence_scores[n]],
                           rcResult.image_description)
            IN  IF ings = <<>>
                THEN ToolRaise(ErrNoIngredients)
                ELSE IF \E n \in Range(ings) : n \notin DOMAIN rcResult.confidence_scores
                THEN ToolRaise(ErrDetectionFailed)
                ELSE IF out = None
                THEN ToolRaise(ErrDetectionFailed)
                ELSE /\ toolPc' = "returned"
                     /\ toolOutput' = out
                     /\ UNCHANGED toolError
    /\ UNCHANGED <<entry, callVars, mcpVars, trackVars, retryVars, inferenceLog, toolSource, toolSent, hookVars>>

ToolInit ==
    /\ entry = "tool"
    /\ InitRetryVars
    /\ InitToolVars
    /\ InitHookVars
    /\ InitCallVars
    /\ InitMcpVars
    /\ InitTrackVars

ToolNext == ToolInvoke \/ ToolAttempt \/ ToolRetryExhausted \/ ToolFinish

ToolSpec == ToolInit /\ [][ToolNext]_vars

\* -------------------------------------------- the pre-processing adapter

HookSources ==
    { UrlSource("ok", PngSmall),
      UrlSource("error", EmptyBytes),
      DataUriSource(TRUE, GifSmall),
      Base64Source(TRUE, PngOversize),
      Base64Source(TRUE, GifOversize) }

HookMessages == { None, Str(<<"What can I make?">>) }

\* The image lists of a request: None, or up to MaxImages references.
HookImageLists ==
    {None} \cup {List(l) : l \in UNION {[1..n -> HookSources] : n \in 0..MaxImages}}

DetectedMarker == "\n\n[Detected Ingredients] "

\* `x or []`, `x or ""`
OrEmpty(x) == IF x = None THEN <<>> ELSE x.items

RECURSIVE Flatten(_)
\* for result in results: if result: all_ingredients.extend(result)
Flatten(results) ==
    IF results = <<>> THEN <<>>
    ELSE OrEmpty(Head(results)) \o Flatten(Tail(results))

RECURSIVE Dedup(_)
\* list(dict.fromkeys(all_ingredients))
Dedup(s) ==
    IF s = <<>> THEN <<>>
    ELSE LET front == Dedup(SubSeq(s, 1, Len(s) - 1))
             last == s[Len(s)]
         IN  IF last \in Range(front) THEN front ELSE Append(front, last)

RECURSIVE JoinComma(_)
\* ", ".join(unique_ingredients)
JoinComma(s) ==
    IF s = <<>> THEN <<>>
    ELSE IF Len(s) = 1 THEN s
    ELSE <<Head(s), ", ">> \o JoinComma(Tail(s))

gather_as_completed(results, order) ==
    [k \in 1..Len(order) |-> results[order[k]]]

\* await asyncio.gather(*tasks): the results in the order of the tasks,
\* whatever the order in which they ended.
gather(results, order) == results

updated_message_without_marker(message_text, unique) ==
    message_text \o JoinComma(unique)

\* f"{message_text}\n\n[Detected Ingredients] {ingredient_text}"
updated_message(message_text, unique) ==
    message_text \o <<DetectedMarker>> \o JoinComma(unique)

hook_catches_nothing(exc) == FALSE

\* except Exception as e: the clause around the whole body of the hook.
hook_catches(exc) == exc = "Exception"

handler_keeps_images(input_data, imgs) == imgs

\* The except handler: if input_data: input_data.images = []
handler_images(input_data, imgs) ==
    IF input_data # None THEN List(<<>>) ELSE imgs

\* extract_ingredients_pre_hook(run_input) up to the await of gather: the
\* early returns, then one task per image.
HookInvoke ==
    /\ entry = "hook"
    /\ hookPc = "idle"
    /\ \E msg \in HookMessages, imgs \in HookImageLists :
        /\ message' = msg
        /\ messageIn' = msg
        /\ images' = imgs
        /\ imagesIn' = imgs
        /\ IF OrEmpty(imgs) = <<>>
           THEN /\ hookPc' = "returned"
                /\ UNCHANGED <<taskPc, taskResult, taskInference, taskSent>>
           ELSE /\ hookPc' = "gather"
                /\ taskPc' = [i \in DOMAIN imgs.items |-> "resolve"]
                /\ taskResult' = [i \in DOMAIN imgs.items |-> None]
                /\ taskInference' = [i \in DOMAIN imgs.items |-> <<>>]
                /\ taskSent' = [i \in DOMAIN imgs.items |-> None]
    /\ UNCHANGED <<entry, callVars, mcpVars, trackVars, retryVars, toolVars, finished, unique_ingredients>>

TaskReturn(i, result) ==
    /\ taskPc' = [taskPc EXCEPT ![i] = "done"]
    /\ taskResult' = [taskResult EXCEPT ![i] = result]
    /\ finished' = Append(finished, i)

\* _process_single_image(image, idx) up to the inference call: resolve the
\* source, validate format and size, compress.
TaskResolve(i) ==
    /\ taskPc[i] = "resolve"
    /\ LET b == get_image_bytes_from_source(imagesIn.items[i]) IN
       IF NotBytes(b) \/ ~validate_image_format(b) \/ ~validate_image_size(b)
       THEN TaskReturn(i, None) /\ UNCHANGED taskSent
       ELSE /\ taskPc' = [taskPc EXCEPT ![i] = "extract"]
            /\ \E decodes \in BOOLEAN :
                  taskSent' = [taskSent EXCEPT ![i] =
                      IF COMPRESS_IMG THEN compress_image(b, decodes) ELSE b]
            /\ UNCHANGED <<taskResult, finished>>
    /\ UNCHANGED <<entry, callVars, mcpVars, trackVars, retryVars, toolVars, hookPc, message, images,
                   messageIn, imagesIn, taskInference, unique_ingredients>>

PipelineRetriesAlways(with_retries, result, calls) ==
    result = None /\ calls < DefaultMaxRetries

\* prepare_and_extract_ingredients: `if with_retries` selects the retry
\* controller, under which a failed call is followed by another while the
\* budget lasts; otherwise extract_ingredients_from_image is called once.
PipelineRetries(with_retries, result, calls) ==
    with_retries /\ result = None /\ calls < DefaultMaxRetries

\* _process_single_image from the inference call on: one call of
\* extract_ingredients_from_image (with_retries=False), then the filter.
TaskExtract(i) ==
    /\ taskPc[i] = "extract"
    /\ \E io \in InferenceOutcomes :
        LET result == extract_ingredients_from_image(io)
            ings == filter_ingredients_by_confidence(
                        result.ingredients, result.confidence_scores)
        IN  /\ taskInference' = [taskInference EXCEPT ![i] = Append(@, io)]
            /\ IF PipelineRetries(FALSE, result, Len(taskInference[i]) + 1)
               THEN UNCHANGED <<taskPc, taskResult, finished>>
               ELSE IF result = None
               THEN TaskReturn(i, None)
               ELSE IF ings # <<>>
               THEN TaskReturn(i, List(ings))
               ELSE TaskReturn(i, None)
    /\ UNCHANGED <<entry, callVars, mcpVars, trackVars, retryVars, toolVars, hookPc, message, images,
                   messageIn, imagesIn, taskSent, unique_ingredients>>

\* An error no stage of _process_single_image anticipates escapes the task.
TaskUnexpectedError(i) ==
    /\ taskPc[i] \in {"resolve", "extract"}
    /\ taskPc' = [taskPc EXCEPT ![i] = "raised"]
    /\ finished' = Append(finished, i)
    /\ UNCHANGED <<entry, callVars, mcpVars, trackVars, retryVars, toolVars, hookPc, message, images,
                   messageIn, imagesIn, taskResult, taskInference, taskSent,
                   unique_ingredients>>

\* gather returned: flatten, deduplicate, annotate the message, clear the
\* images.
HookJoin ==
    /\ entry = "hook"
    /\ hookPc = "gather"
    /\ \A i \in DOMAIN taskPc : taskPc[i] = "done"
    /\ LET results == gather(taskResult, finished)
           all_ingredients == Flatten(results)
           unique == Dedup(all_ingredients)
       IN  IF all_ingredients # <<>>
           THEN /\ unique_ingredients' = unique
                /\ message' = Str(updated_message(OrEmpty(message), unique))
           ELSE UNCHANGED <<unique_ingredients, message>>
    /\ images' = List(<<>>)
    /\ hookPc' = "returned"
    /\ UNCHANGED <<entry, callVars, mcpVars, trackVars, retryVars, toolVars, messageIn, imagesIn, taskPc,
                   taskResult, taskInference, taskSent, finished>>

\* gather (return_exceptions=False) raised the exception of a task as soon
\* as it had one: the except handler clears the images and the hook returns.
HookExcept ==
    /\ entry = "hook"
    /\ hookPc = "gather"
    /\ \E i \in DOMAIN taskPc : taskPc[i] = "raised"
    /\ IF hook_catches("Exception")
       THEN /\ images' = handler_images([message |-> message, images |-> images], images)
            /\ hookPc' = "returned"
       ELSE /\ hookPc' = "raised"
            /\ UNCHANGED images
    /\ UNCHANGED <<entry, callVars, mcpVars, trackVars, retryVars, toolVars, message, messageIn, imagesIn,
                   taskPc, taskResult, taskInference, taskSent, finished,
                   unique_ingredients>>

TaskStep ==
    /\ entry = "hook"
    /\ \E i \in DOMAIN taskPc :
          TaskResolve(i) \/ TaskExtract(i) \/ TaskUnexpectedError(i)

HookInit ==
    /\ entry = "hook"
    /\ InitRetryVars
    /\ InitToolVars
    /\ InitHookVars
    /\ InitCallVars
    /\ InitMcpVars
    /\ InitTrackVars

HookNext == HookInvoke \/ TaskStep \/ HookJoin \/ HookExcept

HookSpec == HookInit /\ [][HookNext]_vars

\* ------------------------- the synchronous pre-hook (src/ingredients.py)

\* fetch_image_bytes(image.url) of src/ingredients.py: urllib, None on any
\* failure.
legacy_fetch_image_bytes(src) ==
    IF src.net = "ok" THEN src.payload ELSE None

LegacySources ==
    { UrlSource("ok", PngSmall),
      UrlSource("error", EmptyBytes),
      UrlSource("ok", GifSmall) }

LegacyContents == { Str(<<"What can I make?">>), Str(<<>>) }

LegacyImageLists ==
    {None} \cup {List(l) : l \in UNION {[1..n -> LegacySources] : n \in 0..MaxImages}}

\* What a stubbed extract_ingredients_from_image hands the hook.
LegacyOutcomes ==
    { Output(<<"tomato", "basil">>, Scores2("tomato", 95, "basil", 88), None),
      Output(<<"tomato", "mozzarella">>, Scores2("tomato", 93, "mozzarella", 92), None),
      None,
      Raise(<<"API", "error">>) }

\* extract_ingredients_pre_hook(run_input) of src/ingredients.py up to its
\* loop: return at once without images.
LegacyInvoke ==
    /\ entry = "legacy"
    /\ hookPc = "idle"
    /\ \E msg \in LegacyContents, imgs \in LegacyImageLists :
        /\ message' = msg
        /\ messageIn' = msg
        /\ images' = imgs
        /\ imagesIn' = imgs
        /\ IF OrEmpty(imgs) = <<>>
           THEN /\ hookPc' = "returned"
                /\ UNCHANGED <<taskPc, taskResult, taskInference, taskSent>>
           ELSE /\ hookPc' = "loop"
                /\ taskPc' = [i \in DOMAIN imgs.items |-> "resolve"]
                /\ taskResult' = [i \in DOMAIN imgs.items |-> None]
                /\ taskInference' = [i \in DOMAIN imgs.items |-> <<>>]
                /\ taskSent' = [i \in DOMAIN imgs.items |-> None]
    /\ UNCHANGED <<entry, callVars, mcpVars, trackVars, retryVars, toolVars, finished, unique_ingredients>>

\* One pass of `for idx, image in enumerate(images)`: fetch, validate,
\* extract, filter. An exception of the extractor leaves the loop for the
\* except clause, which logs a warning and nothing else.
LegacyImage ==
    /\ entry = "legacy"
    /\ hookPc = "loop"
    /\ Len(finished) < Len(taskPc)
    /\ LET i == Len(finished) + 1
           b == legacy_fetch_image_bytes(imagesIn.items[i])
       IN  IF NotBytes(b) \/ ~validate_image_format(b) \/ ~validate_image_size(b)
           THEN /\ TaskReturn(i, None)
                /\ UNCHANGED <<hookPc, taskInference, taskSent>>
           ELSE \E o \in LegacyOutcomes :
                /\ taskSent' = [taskSent EXCEPT ![i] = b]
                /\ taskInference' = [taskInference EXCEPT ![i] = <<o>>]
                /\ IF o.kind = "raise"
                   THEN /\ taskPc' = [taskPc EXCEPT ![i] = "raised"]
                        /\ finished' = Append(finished, i)
                        /\ hookPc' = "returned"
                        /\ UNCHANGED taskResult
                   ELSE IF o = None
                   THEN TaskReturn(i, None) /\ UNCHANGED hookPc
                   ELSE LET ings == filter_ingredients_by_confidence(
                                        o.ingredients, o.confidence_scores)
                        IN  /\ TaskReturn(i, IF ings # <<>> THEN List(ings) ELSE None)
                            /\ UNCHANGED hookPc
    /\ UNCHANGED <<entry, callVars, mcpVars, trackVars, retryVars, toolVars, message, images,
                   messageIn, imagesIn, unique_ingredients>>

\* After the loop: append the detected ingredients, clear the images.
LegacyFinish ==
    /\ entry = "legacy"
    /\ hookPc = "loop"
    /\ Len(finished) = Len(taskPc)
    /\ LET all_ingredients == Flatten(taskResult)
           unique == Dedup(all_ingredients)
       IN  IF all_ingredients # <<>>
           THEN /\ unique_ingredients' = unique
                /\ message' = Str(OrEmpty(message) \o <<DetectedMarker>> \o JoinComma(unique))
           ELSE UNCHANGED <<unique_ingredients, message>>
    /\ images' = List(<<>>)
    /\ hookPc' = "returned"
    /\ UNCHANGED <<entry, callVars, mcpVars, trackVars, retryVars, toolVars, messageIn, imagesIn, taskPc,
                   taskResult, taskInference, taskSent, finished>>

LegacyInit ==
    /\ entry = "legacy"
    /\ InitRetryVars
    /\ InitToolVars
    /\ InitHookVars
    /\ InitCallVars
    /\ InitMcpVars
    /\ InitTrackVars

LegacyNext == LegacyInvoke \/ LegacyImage \/ LegacyFinish

LegacySpec == LegacyInit /\ [][LegacyNext]_vars

\* ------------------------------------ direct calls of the pure functions

\* All sequences over S of length at most MaxListLen.
ListsOver(S) == UNION {[1..n -> S] : n \in 0..MaxListLen}

\* All dictionaries with keys among K and values among V.
DictsOver(K, V) == UNION {[D -> V] : D \in SUBSET K}

FilterNames == {"tomato", "basil", "unknown"}

FilterScores == {0, 69, 70, 95}

\* Values of config.MIN_INGREDIENT_CONFIDENCE, documented as 0.0 - 1.0.
FilterThresholds == {0, 70, 100}

\* filter_ingredients_by_confidence(L, C) under a configured threshold.
FilterCall ==
    /\ entry = "filter"
    /\ callPc = "idle"
    /\ \E L \in ListsOver(FilterNames), C \in DictsOver(FilterNames, FilterScores),
          t \in FilterThresholds :
        /\ callArgs' = [ingredients |-> L, confidence_scores |-> C, threshold |-> t]
        /\ callOut' = <<filter_by_confidence(L, C, t)>>
    /\ callPc' = "filtered"
    /\ UNCHANGED <<entry, retryVars, toolVars, hookVars, mcpVars, trackVars>>

\* The filter applied to its own output, with the same scores and threshold.
FilterAgain ==
    /\ entry = "filter"
    /\ callPc = "filtered"
    /\ callOut' = Append(callOut,
           filter_by_confidence(callOut[1], callArgs.confidence_scores,
                                callArgs.threshold))
    /\ callPc' = "refiltered"
    /\ UNCHANGED <<entry, callArgs, retryVars, toolVars, hookVars, mcpVars, trackVars>>

FilterInit ==
    /\ entry = "filter"
    /\ InitRetryVars
    /\ InitToolVars
    /\ InitHookVars
    /\ InitCallVars
    /\ InitMcpVars
    /\ InitTrackVars

FilterNext == FilterCall \/ FilterAgain

FilterSpec == FilterInit /\ [][FilterNext]_vars

ConstructNames == {"tomato", "Tomato", " basil "}

ConstructScores == {0, 60, 95, 100, 101}

\* The dictionaries given as confidence_scores. Of two keys that are equal
\* once stripped and lowercased the validator keeps the later one; here such
\* keys carry the same score.
ConstructDicts ==
    {C \in DictsOver(ConstructNames, ConstructScores) :
        \A a, b \in DOMAIN C : Lower(Strip(a)) = Lower(Strip(b)) => C[a] = C[b]}

\* IngredientDetectionOutput(ingredients=L, confidence_scores=C)
ConstructCall ==
    /\ entry = "construct"
    /\ callPc = "idle"
    /\ \E L \in ListsOver(ConstructNames), C \in ConstructDicts :
        /\ callArgs' = [ingredients |-> L, confidence_scores |-> C]
        /\ callOut' = <<IngredientDetectionOutput(L, C, None)>>
    /\ callPc' = "constructed"
    /\ UNCHANGED <<entry, retryVars, toolVars, hookVars, mcpVars, trackVars>>

ConstructInit ==
    /\ entry = "construct"
    /\ InitRetryVars
    /\ InitToolVars
    /\ InitHookVars
    /\ InitCallVars
    /\ InitMcpVars
    /\ InitTrackVars

ConstructNext == ConstructCall

ConstructSpec == ConstructInit /\ [][ConstructNext]_vars

\* Values of config.MAX_IMAGE_SIZE_MB.
ValidateMaxima == {1, 2, 5}

\* Buffer lengths: empty, shorter than any signature, small, and one byte
\* under, at and over each configured maximum.
ValidateLengths ==
    {0, 2, 16} \cup UNION {{m * 1024 * 1024 - 1, m * 1024 * 1024, m * 1024 * 1024 + 1} :
                              m \in ValidateMaxima}

\* What filetype.guess finds in the leading bytes; a buffer too short to
\* hold a signature has none.
ValidateBuffers ==
    {Bytes(sig, len) : sig \in {"jpeg", "png", "gif", "html"},
                       len \in ValidateLengths \ {0, 2}}
       \cup {Bytes("unknown", len) : len \in ValidateLengths}

\* validate_image_format(b) and validate_image_size(b) under a configured
\* maximum.
ValidateCall ==
    /\ entry = "validate"
    /\ callPc = "idle"
    /\ \E b \in ValidateBuffers, m \in ValidateMaxima :
        /\ callArgs' = [buffer |-> b, max_mb |-> m]
        /\ callOut' = <<validate_image_format(b), validate_image_size_under(b, m)>>
    /\ callPc' = "validated"
    /\ UNCHANGED <<entry, retryVars, toolVars, hookVars, mcpVars, trackVars>>

ValidateInit ==
    /\ entry = "validate"
    /\ InitRetryVars
    /\ InitToolVars
    /\ InitHookVars
    /\ InitCallVars
    /\ InitMcpVars
    /\ InitTrackVars

ValidateNext == ValidateCall

ValidateSpec == ValidateInit /\ [][ValidateNext]_vars

\* The pieces of a response text: prose, prose that holds an opening or a
\* closing brace, a JSON object of the required structure, and one without
\* it (it names no ingredient).
ParseTokens ==
    {Prose("Here"), [t |-> "lbrace"], [t |-> "rbrace"],
     Json(<<"tomato">>, Scores1("tomato", 90)),
     Json(<<>>, Scores1("tomato", 95))}

\* The response texts: up to MaxTextLen pieces.
ParseTexts == UNION {[1..n -> ParseTokens] : n \in 0..MaxTextLen}

\* parse_gemini_response(response_text)
ParseCall ==
    /\ entry = "parse"
    /\ callPc = "idle"
    /\ \E text \in ParseTexts :
        /\ callArgs' = [response_text |-> text]
        /\ callOut' = <<parse_gemini_response(text)>>
    /\ callPc' = "parsed"
    /\ UNCHANGED <<entry, retryVars, toolVars, hookVars, mcpVars, trackVars>>

ParseInit ==
    /\ entry = "parse"
    /\ InitRetryVars
    /\ InitToolVars
    /\ InitHookVars
    /\ InitCallVars
    /\ InitMcpVars
    /\ InitTrackVars

ParseNext == ParseCall

ParseSpec == ParseInit /\ [][ParseNext]_vars

\* ------------------------------------------- SpoonacularMCP.initialize

DefaultRetryDelays == <<1, 2, 4>>

\* The delay used beyond the end of retry_delays.
FallbackDelay == 4

\* The retry_delays arguments: None, and two lists.
RetryDelayArgs == {None, List(<<5>>), List(<<2, 3>>)}

\* The exceptions a construction of MCPTools ends in.
ConnectFailures == {"ConnectionError", "TimeoutError"}

\* `retry_delays or [1, 2, 4]`
retry_delays_or_default(arg) ==
    IF arg = None \/ arg.items = <<>> THEN DefaultRetryDelays ELSE arg.items

sleeps_after_every_attempt(a, max) == TRUE

\* `attempt < self.max_retries - 1`: a sleep follows the failed attempt.
sleeps_after_attempt(a, max) == a < max - 1

\* `self.retry_delays[attempt] if attempt < len(self.retry_delays) else 4`
delay_of_attempt(delays, a) ==
    IF a < Len(delays) THEN delays[a + 1] ELSE FallbackDelay

\* SpoonacularMCP(api_key, max_retries, retry_delays)
McpConstruct ==
    /\ entry = "mcp"
    /\ mcpPc = "new"
    /\ \E api_key \in {"", "key"}, m \in 0..MaxConnectRetries, d \in RetryDelayArgs :
        IF api_key = ""
        THEN /\ mcpPc' = "invalid"
             /\ mcpError' = "ValueError"
             /\ UNCHANGED <<mcp_max_retries, retry_delays>>
        ELSE /\ mcpPc' = "idle"
             /\ mcp_max_retries' = m
             /\ retry_delays' = retry_delays_or_default(d)
             /\ UNCHANGED mcpError
    /\ UNCHANGED <<entry, callVars, retryVars, toolVars, hookVars, trackVars,
                   attempt, connectLog, mcpSleeps>>

\* initialize() up to the loop.
McpInitialize ==
    /\ entry = "mcp"
    /\ mcpPc = "idle"
    /\ mcpPc' = "connecting"
    /\ attempt' = 0
    /\ UNCHANGED <<entry, callVars, retryVars, toolVars, hookVars, trackVars,
                   mcp_max_retries, retry_delays, connectLog, mcpSleeps, mcpError>>

\* One pass of the loop in which MCPTools(...) returns.
McpConnected ==
    /\ entry = "mcp"
    /\ mcpPc = "connecting"
    /\ attempt < mcp_max_retries
    /\ connectLog' = Append(connectLog, "ok")
    /\ mcpPc' = "returned"
    /\ UNCHANGED <<entry, callVars, retryVars, toolVars, hookVars, trackVars,
                   mcp_max_retries, retry_delays, attempt, mcpSleeps, mcpError>>

\* One pass of the loop in which MCPTools(...) raises.
McpFailed ==
    /\ entry = "mcp"
    /\ mcpPc = "connecting"
    /\ attempt < mcp_max_retries
    /\ \E e \in ConnectFailures : connectLog' = Append(connectLog, e)
    /\ IF sleeps_after_attempt(attempt, mcp_max_retries)
       THEN mcpSleeps' = Append(mcpSleeps, delay_of_attempt(retry_delays, attempt))
       ELSE UNCHANGED mcpSleeps
    /\ attempt' = attempt + 1
    /\ UNCHANGED <<entry, callVars, retryVars, toolVars, hookVars, trackVars,
                   mcpPc, mcp_max_retries, retry_delays, mcpError>>

\* The loop is over: raise ConnectionError.
McpExhausted ==
    /\ entry = "mcp"
    /\ mcpPc = "connecting"
    /\ ~(attempt < mcp_max_retries)
    /\ mcpPc' = "raised"
    /\ mcpError' = "ConnectionError"
    /\ UNCHANGED <<entry, callVars, retryVars, toolVars, hookVars, trackVars,
                   mcp_max_retries, retry_delays, attempt, connectLog, mcpSleeps>>

McpInit ==
    /\ entry = "mcp"
    /\ InitRetryVars
    /\ InitToolVars
    /\ InitHookVars
    /\ InitCallVars
    /\ InitMcpVars
    /\ InitTrackVars

McpNext ==
    McpConstruct \/ McpInitialize \/ McpConnected \/ McpFailed \/ McpExhausted

McpSpec == McpInit /\ [][McpNext]_vars

\* ------------------------------------------------ track_state_tool_hook

\* The tools whose results are counted as recipes, and another one.
TrackFunctions == {"search_recipes", "get_recipe_information", "detect_ingredients"}

RecipeFunctions == {"search_recipes", "get_recipe_information"}

\* What one execution of the wrapped function ends in: a result holding
\* some recipes, a result _extract_recipe_count cannot take the length of,
\* or an exception.
Uncountable == [kind |-> "return", recipes |-> -1]

FunctionOutcomes ==
    {[kind |-> "return", recipes |-> 0], [kind |-> "return", recipes |-> 2],
     Uncountable, [kind |-> "raise", recipes |-> 0]}

\* How an invocation ended.
Ended(name, before, ran, o, err) ==
    [name |-> name, count_before |-> before, ran |-> ran, outcome |-> o,
     error |-> err]

\* The except clause: the wrapped function is called, and what it returns
\* or raises is what the hook returns or raises. `ran` executions came
\* before it.
TrackExcept(name, before, ran, o) ==
    /\ executions' = executions + ran + 1
    /\ trackLast' = Ended(name, before, ran + 1,
                          IF o.kind = "raise" THEN "raised" ELSE "returned",
                          IF o.kind = "raise" THEN "tool error" ELSE "none")

\* An invocation that reads a count at or over the limit: RetryAgentRun is
\* raised inside the try block, and `except Exception` catches it.
TrackAtLimit ==
    /\ entry = "track"
    /\ hookCalls < MaxHookCalls
    /\ tool_call_count >= TOOL_CALL_LIMIT
    /\ hookCalls' = hookCalls + 1
    /\ \E name \in TrackFunctions, o \in FunctionOutcomes :
          TrackExcept(name, tool_call_count, 0, o)
    /\ UNCHANGED <<entry, callVars, retryVars, toolVars, hookVars, mcpVars,
                   tool_call_count, recipes_found>>

\* An invocation that reads a count under the limit.
TrackUnderLimit ==
    /\ entry = "track"
    /\ hookCalls < MaxHookCalls
    /\ tool_call_count < TOOL_CALL_LIMIT
    /\ hookCalls' = hookCalls + 1
    /\ tool_call_count' = tool_call_count + 1
    /\ \E name \in TrackFunctions, first \in FunctionOutcomes, second \in FunctionOutcomes :
          IF first.kind = "raise" \/ (name \in RecipeFunctions /\ first = Uncountable)
          THEN /\ TrackExcept(name, tool_call_count, 1, second)
               /\ UNCHANGED recipes_found
          ELSE /\ executions' = executions + 1
               /\ recipes_found' =
                     IF name \in RecipeFunctions /\ first.recipes > 0
                     THEN recipes_found + first.recipes
                     ELSE recipes_found
               /\ trackLast' = Ended(name, tool_call_count, 1, "returned", "none")
    /\ UNCHANGED <<entry, callVars, retryVars, toolVars, hookVars, mcpVars>>

TrackInit ==
    /\ entry = "track"
    /\ InitRetryVars
    /\ InitToolVars
    /\ InitHookVars
    /\ InitCallVars
    /\ InitMcpVars
    /\ InitTrackVars

TrackNext == TrackAtLimit \/ TrackUnderLimit

TrackSpec == TrackInit /\ [][TrackNext]_vars

\* ------------------------------------------------------- the whole module

Init ==
    /\ entry \in {"retry", "tool", "hook", "legacy", "filter", "construct",
                 "validate", "parse", "mcp", "track"}
    /\ InitRetryVars
    /\ InitToolVars
    /\ InitHookVars
    /\ InitCallVars
    /\ InitMcpVars
    /\ InitTrackVars

Next ==
    \/ RetryNext
    \/ ToolNext
    \/ HookNext
    \/ LegacyNext
    \/ FilterNext
    \/ ConstructNext
    \/ ValidateNext
    \/ ParseNext
    \/ McpNext
    \/ TrackNext

Spec == Init /\ [][Next]_vars

\* ======================================================= claims: retries

IsTransientRaise(o) == o.kind = "raise" /\ o.text \in TransientErrors

IsPermanentRaise(o) == o.kind = "raise" /\ o.text \in PermanentErrors

IsRetryableFailure(o) == o.kind = "none" \/ IsTransientRaise(o)

\* The delays 1, 2, 4, ... of n consecutive sleeps.
DoublingDelays(n) == [i \in 1..n |-> 2 ^ (i - 1)]

RECURSIVE SumSeq(_)
SumSeq(s) == IF s = <<>> THEN 0 ELSE Head(s) + SumSeq(Tail(s))

\* C1: for any max_retries >= 1 and any sequence of extractor outcomes,
\* extract_ingredients_with_retries calls the extractor at most max_retries
\* times, and every run that entered the loop returns.
C1_BoundedRetries ==
    /\ [](Len(extractLog) <= max_retries)
    /\ (rcPc = "loop" ~> rcPc = "done")

\* A run that used its whole budget and returned.
C1_Witness ==
    /\ rcPc = "done"
    /\ max_retries >= 2
    /\ Len(extractLog) = max_retries

\* C3: N transient errors followed by a success, with max_retries >= N+1:
\* the controller keeps calling after each transient error, returns the
\* successful result at call N+1, and has slept N times, 1, 2, 4, ...
C3_TransientThenSuccess ==
    LET n == Len(extractLog) IN
    /\ (/\ n >= 1
        /\ \A i \in 1..(n - 1) : IsTransientRaise(extractLog[i])
        /\ extractLog[n].kind = "result")
       => /\ rcPc = "done"
          /\ rcResult = extractLog[n]
          /\ sleeps = DoublingDelays(n - 1)
    /\ (/\ rcPc # "idle"
        /\ \A i \in 1..n : IsTransientRaise(extractLog[i])
        /\ n + 1 <= max_retries)
       => /\ rcPc = "loop"
          /\ WhileCond(retry_count, max_retries)
          /\ sleeps = DoublingDelays(n)

\* Three transient errors, then the result at the fourth call.
C3_Witness ==
    /\ rcPc = "done"
    /\ Len(extractLog) = 4
    /\ \A i \in 1..3 : IsTransientRaise(extractLog[i])
    /\ rcResult = SampleOutput
    /\ sleeps = <<1, 2, 4>>

\* C4: a permanent error ends the run at once: it is the last extractor
\* call, the result is None, nothing is slept after it (so a permanent
\* error at the first call means one call and no sleep at all), whatever
\* budget remains.
C4_PermanentStops ==
    \A k \in 1..Len(extractLog) :
        IsPermanentRaise(extractLog[k])
        => /\ k = Len(extractLog)
           /\ rcPc = "done"
           /\ rcResult = None
           /\ Len(sleeps) = k - 1
           /\ (k = 1 => sleeps = <<>>)

\* A permanent error at the first call with budget left, and one after a
\* retryable failure.
C4_Witness ==
    /\ rcPc = "done"
    /\ max_retries = 3
    /\ Len(extractLog) = 1
    /\ IsPermanentRaise(extractLog[1])

\* C5: when every attempt fails retryably the extractor is called exactly
\* max_retries times, max_retries - 1 sleeps of 1, 2, ..., 2^(max_retries-2)
\* occur (none after the final attempt) and None is returned.
C5_Exhaustion ==
    (/\ rcPc = "done"
     /\ \A i \in 1..Len(extractLog) : IsRetryableFailure(extractLog[i]))
    => /\ Len(extractLog) = max_retries
       /\ sleeps = DoublingDelays(max_retries - 1)
       /\ rcResult = None

\* An exhausted run that mixes None results and transient errors.
C5_Witness ==
    /\ rcPc = "done"
    /\ max_retries = 4
    /\ Len(extractLog) = 4
    /\ extractLog[1].kind = "none"
    /\ IsTransientRaise(extractLog[2])
    /\ IsTransientRaise(extractLog[4])
    /\ sleeps = <<1, 2, 4>>

C2_PermanentNotRetried ==
    \A k \in 1..Len(inferenceLog) :
        IsPermanentRaise(inferenceLog[k]) => k = Len(inferenceLog)

\* The resolver hands back a non-empty payload for the source: a response
\* arrived, or the string decoded.
Resolves(src) ==
    /\ IF src.scheme = "http" THEN src.net \in {"ok", "status"} ELSE src.wellformed
    /\ src.payload.len > 0

IsJpegOrPng(b) == b.sig = "jpeg" \/ b.sig = "png"

IsOversized(b) == b.len > 5 * 1024 * 1024

\* The failure kind of the request, from its source and from what the
\* retry controller returned.
ToolFailureKind ==
    IF ~Resolves(toolSource) THEN "unresolved"
    ELSE IF ~IsJpegOrPng(toolSource.payload) THEN "format"
    ELSE IF IsOversized(toolSource.payload) THEN "size"
    ELSE IF rcPc # "done" THEN "none"
    ELSE IF rcResult = None /\ Len(extractLog) = max_retries THEN "exhausted"
    ELSE IF rcResult # None
            /\ \A n \in Range(rcResult.ingredients) :
                  Get(rcResult.confidence_scores, n, 0) < 70
    THEN "below"
    ELSE "none"

ToolFailureMessage(kind) ==
    CASE kind = "unresolved" -> "Could not retrieve image bytes from provided data"
      [] kind = "format" -> "Invalid image format. Only JPEG and PNG are supported."
      [] kind = "size" -> "Image too large. Maximum size is 5MB"
      [] kind = "exhausted" ->
            "Failed to extract ingredients from image. Please try another image."
      [] kind = "below" ->
            "No ingredients detected with sufficient confidence. Please try another image."
      [] OTHER -> "none"

\* C15: detect_ingredients_tool raises exactly when the request has one of
\* the five failure kinds (unresolved source, not JPEG/PNG, oversized, retry
\* exhaustion, every ingredient below the threshold), and the message of the
\* error is exactly the message of that kind.
C15_ErrorMapping ==
    /\ toolPc = "raised"
         => (ToolFailureKind # "none" /\ toolError = ToolFailureMessage(ToolFailureKind))
    /\ toolPc = "returned" => ToolFailureKind = "none"

\* An oversized PNG was refused with the size message.
C15_Witness ==
    /\ toolPc = "raised"
    /\ toolSource = Base64Source(TRUE, PngOversize)
    /\ toolError = "Image too large. Maximum size is 5MB"

\* The first five surviving names, each with its score as a percentage, and
\* the number of names beyond the fifth.
SummaryDescription(ings, scores) ==
    [kind |-> "summary",
     shown |-> [i \in 1..(IF Len(ings) < 5 THEN Len(ings) ELSE 5) |->
                   [name |-> ings[i], percent |-> scores[ings[i]]]],
     more |-> IF Len(ings) > 5 THEN Len(ings) - 5 ELSE 0]

\* C17: on success the adapter's description summarizes the surviving
\* ingredients ("Detected ingredients: tomato (95%)", "and N more" beyond
\* five); for the answer tomato 0.95, basil 0.60 the result is [tomato],
\* {tomato: 0.95} and that description.
C17_DescriptionSummarizes ==
    toolPc = "returned"
    => /\ toolOutput.image_description =
             SummaryDescription(toolOutput.ingredients, toolOutput.confidence_scores)
       /\ inferenceLog[Len(inferenceLog)] = Text(RespBasilLow)
             => toolOutput =
                  Output(<<"tomato">>, Scores1("tomato", 95),
                         SummaryDescription(<<"tomato">>, Scores1("tomato", 95)))

\* C23: a URL whose fetch meets a network error, a timeout or a response
\* with a non-success status is a resolution failure: the on-demand adapter
\* ends in "Could not retrieve image bytes from provided data", the body of
\* the response is never taken as image bytes, and no inference call is made.
C23_FetchFailureIsUnresolved ==
    (toolPc # "idle" /\ toolSource.scheme = "http" /\ toolSource.net # "ok")
    => /\ toolPc = "raised"
       /\ toolError = "Could not retrieve image bytes from provided data"
       /\ toolSent = None
       /\ inferenceLog = <<>>

\* C24: extract_ingredients_from_image never raises and calls the inference
\* service once per invocation: an exception of the call, an answer without
\* a JSON object and an object that fails the construction all give None.
C24_ExtractSingleAttemptNeverRaises ==
    /\ Len(extractLog) = Len(inferenceLog)
    /\ \A k \in DOMAIN extractLog :
          /\ extractLog[k].kind \in {"result", "none"}
          /\ inferenceLog[k].kind = "raise" => extractLog[k] = None
          /\ (inferenceLog[k].kind = "text"
              /\ \A i \in DOMAIN inferenceLog[k].text :
                    inferenceLog[k].text[i].t # "json")
             => extractLog[k] = None

\* Three invocations: an exception, an answer without JSON, a result.
C24_Witness ==
    /\ Len(extractLog) = 3
    /\ inferenceLog[1] = Raise(<<"Invalid", "API", "key">>)
    /\ inferenceLog[2] = Text(RespNoJson)
    /\ extractLog[1] = None
    /\ extractLog[2] = None
    /\ extractLog[3].kind = "result"

IsLowercase(w) == Lower(w) = w

\* The names of s are lowercase and no name occurs twice.
DistinctLowercase(s) ==
    /\ \A i \in DOMAIN s : IsLowercase(s[i])
    /\ \A i, j \in DOMAIN s : i # j => s[i] # s[j]

\* C21: the ingredients of every extraction result, and of every result the
\* on-demand adapter returns, are pairwise distinct lowercase strings,
\* whatever names the vision response contained.
C21_DistinctLowercaseIngredients ==
    /\ \A k \in DOMAIN extractLog :
          extractLog[k].kind = "result" => DistinctLowercase(extractLog[k].ingredients)
    /\ toolPc = "returned" => DistinctLowercase(toolOutput.ingredients)

\* C29: every successful return of detect_ingredients_tool has a non-empty
\* ingredients list, confidence_scores whose keys are exactly the returned
\* ingredients, every score at least the configured minimum, and a list that
\* is a subsequence of the extraction result's ingredients.
C29_SuccessfulReturnShape ==
    toolPc = "returned"
    => /\ toolOutput.ingredients # <<>>
       /\ DOMAIN toolOutput.confidence_scores = Range(toolOutput.ingredients)
       /\ \A n \in DOMAIN toolOutput.confidence_scores :
             toolOutput.confidence_scores[n] >= 70
       /\ \E P \in SUBSET DOMAIN rcResult.ingredients :
             /\ Len(toolOutput.ingredients) = Cardinality(P)
             /\ \A k \in DOMAIN toolOutput.ingredients :
                   \E i \in P : /\ Cardinality({j \in P : j <= i}) = k
                                /\ toolOutput.ingredients[k] = rcResult.ingredients[i]

\* The answer tomato 0.95, basil 0.60 returned as [tomato] with its score.
C29_Witness ==
    /\ toolPc = "returned"
    /\ rcResult.ingredients = <<"tomato", "basil">>
    /\ toolOutput.ingredients = <<"tomato">>
    /\ toolOutput.confidence_scores = Scores1("tomato", 95)

\* ===================================== claims: the pre-processing adapter

RECURSIVE SurvivingUpTo(_)
\* The surviving lists of images 1..n, one after the other in image order.
SurvivingUpTo(n) ==
    IF n = 0 THEN <<>>
    ELSE SurvivingUpTo(n - 1) \o
         (IF taskResult[n] = None THEN <<>> ELSE taskResult[n].items)

FirstIndex(s, x) == CHOOSE i \in DOMAIN s : s[i] = x /\ \A j \in 1..(i - 1) : s[j] # x

\* u is s with every later duplicate removed.
IsFirstSeenDedup(u, s) ==
    /\ Range(u) = Range(s)
    /\ \A i, j \in DOMAIN u :
          i < j => /\ u[i] # u[j]
                   /\ FirstIndex(s, u[i]) < FirstIndex(s, u[j])

AllTasksDone == \A i \in DOMAIN taskPc : taskPc[i] = "done"

TaskRunning(i) == taskPc[i] \in {"resolve", "extract"}

\* C7: when the per-image tasks have all completed and the hook has
\* aggregated, the annotated list is the per-image surviving lists
\* concatenated in request image order with later duplicates removed,
\* whatever the order in which the tasks ended.
C7_AggregationInImageOrder ==
    (hookPc = "returned" /\ taskPc # <<>> /\ AllTasksDone)
    => LET expected == SurvivingUpTo(Len(taskResult)) IN
       /\ IsFirstSeenDedup(unique_ingredients, expected)
       /\ expected # <<>> =>
            message = Str((IF messageIn = None THEN <<>> ELSE messageIn.items)
                          \o <<DetectedMarker>> \o JoinComma(unique_ingredients))

\* [[tomato, basil], [basil, mozzarella]] gives [tomato, basil, mozzarella]
\* although the second image's task ended first.
C7_Witness ==
    /\ hookPc = "returned"
    /\ finished = <<2, 1>>
    /\ taskResult = << List(<<"tomato", "basil">>), List(<<"basil", "mozzarella">>) >>
    /\ unique_ingredients = <<"tomato", "basil", "mozzarella">>

\* C8: the message text and the image list are not modified while any
\* per-image task is still running.
C8_NoMutationWhileTasksRun ==
    (\E i \in DOMAIN taskPc : TaskRunning(i))
    => (message = messageIn /\ images = imagesIn)

\* The image of task i resolves to a JPEG or PNG within the size limit, its
\* task raised nothing, and its inference call returned a response text.
ImageSucceeded(i) ==
    LET src == imagesIn.items[i] IN
    /\ IF src.scheme = "http" THEN src.net = "ok" ELSE src.wellformed
    /\ src.payload.len > 0
    /\ src.payload.sig \in {"jpeg", "png"}
    /\ src.payload.len <= MaxImageBytes
    /\ taskPc[i] = "done"
    /\ Len(taskInference[i]) = 1
    /\ taskInference[i][1].kind = "text"

C10_ImagesCleared ==
    hookPc = "returned"
    => IF imagesIn = None THEN images = None ELSE images = List(<<>>)

\* The handler's path: a task raised, the hook returned, the two image
\* references are gone.
C10_Witness ==
    /\ hookPc = "returned"
    /\ imagesIn # None
    /\ Len(imagesIn.items) = 2
    /\ \E i \in DOMAIN taskPc : taskPc[i] = "raised"
    /\ images = List(<<>>)

\* C12: a failure of one image, however it shows, never aborts the batch:
\* when the hook has returned, the surviving ingredients of every image whose
\* task returned a list are in the annotation.
C12_FailureIsolation ==
    hookPc = "returned"
    => \A i \in DOMAIN taskPc :
          (taskPc[i] = "done" /\ taskResult[i] # None)
          => /\ Range(taskResult[i].items) \subseteq Range(unique_ingredients)
             /\ message # messageIn

\* C13: on return, if the aggregated list is non-empty the text is the
\* original text, then "\n\n[Detected Ingredients] ", then the names joined
\* by ", "; if it is empty (no images, or every image failed or was filtered
\* out) the text is as it was.
C13_TextEffect ==
    hookPc = "returned"
    => LET original == IF messageIn = None THEN <<>> ELSE messageIn.items
           nothing == \A i \in DOMAIN taskResult : taskResult[i] = None
       IN  /\ unique_ingredients # <<>>
                => message = Str(original \o <<"\n\n[Detected Ingredients] ">>
                                     \o JoinComma(unique_ingredients))
           /\ unique_ingredients = <<>> => message = messageIn
           /\ nothing => (unique_ingredients = <<>> /\ message = messageIn)
           /\ (AllTasksDone /\ ~nothing) => unique_ingredients # <<>>

\* "What can I make?" annotated with the two names of one image.
C13_Witness ==
    /\ hookPc = "returned"
    /\ messageIn = Str(<<"What can I make?">>)
    /\ message = Str(<<"What can I make?", "\n\n[Detected Ingredients] ",
                       "tomato", ", ", "basil">>)

FailsValidation(b) == ~IsJpegOrPng(b) \/ IsOversized(b)

\* C16: format is checked before size in both adapters: a payload that is
\* neither JPEG nor PNG is refused as an invalid format even when it is also
\* oversized, never as too large, and a payload that fails either check is
\* neither compressed nor sent to inference.
C16_FormatBeforeSize ==
    /\ (toolPc # "idle" /\ Resolves(toolSource))
       => LET b == toolSource.payload IN
          /\ ~IsJpegOrPng(b)
               => /\ toolPc = "raised"
                  /\ toolError = "Invalid image format. Only JPEG and PNG are supported."
          /\ (IsJpegOrPng(b) /\ IsOversized(b))
               => /\ toolPc = "raised"
                  /\ toolError = "Image too large. Maximum size is 5MB"
          /\ FailsValidation(b)
               => (toolSent = None /\ inferenceLog = <<>> /\ rcPc = "idle")
    /\ \A i \in DOMAIN taskPc :
          (Resolves(imagesIn.items[i]) /\ FailsValidation(imagesIn.items[i].payload))
          => /\ taskSent[i] = None
             /\ taskInference[i] = <<>>
             /\ taskPc[i] = "done" => taskResult[i] = None

\* An oversized GIF handed to the on-demand adapter was refused as an
\* invalid format.
C16_Witness ==
    /\ toolPc = "raised"
    /\ toolSource = Base64Source(TRUE, GifOversize)
    /\ toolError = "Invalid image format. Only JPEG and PNG are supported."
    /\ inferenceLog = <<>>

\* The JSON object of a response text, None when it has none.
ResponseObject(text) ==
    IF parse_json_direct(text) # None
    THEN parse_json_direct(text)
    ELSE parse_json_regex(text)

\* The names the object lists with a confidence at or above the threshold.
ConfidentNames(obj) ==
    {n \in Range(obj.ingredients) :
        n \in DOMAIN obj.confidence_scores /\ obj.confidence_scores[n] >= 70}

\* n is in the list, letter case and surrounding whitespace aside.
AppearsIn(n, list) ==
    \E i \in DOMAIN list : Lower(Strip(list[i])) = Lower(Strip(n))

\* C30: no confident ingredient is lost: a name the parsed response lists
\* with a confidence at or above the threshold is in the on-demand result
\* and in the list the pre-hook task hands to the annotation, whatever its
\* letter case or surrounding whitespace in the response.
C30_NoConfidentIngredientLost ==
    /\ (toolPc \in {"returned", "raised"} /\ rcResult # None)
       => \A n \in ConfidentNames(
                      ResponseObject(inferenceLog[Len(inferenceLog)].text)) :
             /\ toolPc = "returned"
             /\ AppearsIn(n, toolOutput.ingredients)
    /\ \A i \in DOMAIN taskPc :
          (/\ entry = "hook"
           /\ taskPc[i] = "done"
           /\ Len(taskInference[i]) = 1
           /\ taskInference[i][1].kind = "text"
           /\ parse_gemini_response(taskInference[i][1].text) # None)
          => \A n \in ConfidentNames(ResponseObject(taskInference[i][1].text)) :
                /\ taskResult[i] # None
                /\ AppearsIn(n, taskResult[i].items)

\* =================================== claims: the synchronous pre-hook

\* C11: in the synchronous pre-hook of src/ingredients.py, when the
\* extraction of an image raises an exception the hook returns without
\* raising and run_input.images is the empty list afterwards.
C11_LegacyImagesClearedOnError ==
    /\ hookPc # "raised"
    /\ (hookPc = "returned" /\ \E i \in DOMAIN taskPc : taskPc[i] = "raised")
       => images = List(<<>>)

\* ============================================ claims: the pure functions

\* The positions of L whose name has a score of at least t in C, a missing
\* name counting as 0.
KeptPositions(L, C, t) ==
    {i \in DOMAIN L : (IF L[i] \in DOMAIN C THEN C[L[i]] ELSE 0) >= t}

\* out is L restricted to the positions P, in the order of L.
IsRestriction(out, L, P) ==
    /\ Len(out) = Cardinality(P)
    /\ \A k \in DOMAIN out :
          \E i \in P : /\ Cardinality({j \in P : j <= i}) = k
                       /\ out[k] = L[i]

\* C18: filter(L, C) under threshold t is the subsequence of L, in input
\* order, of exactly the names n with C.get(n, 0) >= t, and filtering that
\* output again with the same C and t returns the same list.
C18_FilterSubsequenceIdempotent ==
    callPc \in {"filtered", "refiltered"}
    => /\ IsRestriction(callOut[1], callArgs.ingredients,
                        KeptPositions(callArgs.ingredients,
                                      callArgs.confidence_scores, callArgs.threshold))
       /\ callPc = "refiltered" => callOut[2] = callOut[1]

\* [basil, tomato] with basil just below the threshold: [tomato], twice.
C18_Witness ==
    /\ callPc = "refiltered"
    /\ callArgs = [ingredients |-> <<"basil", "tomato">>,
                   confidence_scores |-> Scores2("basil", 69, "tomato", 70),
                   threshold |-> 70]
    /\ callOut = << <<"tomato">>, <<"tomato">> >>

\* C19 (as stated): for every threshold from 0.0 to 1.0 a name without an
\* entry in confidence_scores never appears in the filter's output.
C19_MissingDropped ==
    callPc \in {"filtered", "refiltered"}
    => \A n \in Range(callArgs.ingredients) :
          n \notin DOMAIN callArgs.confidence_scores => n \notin Range(callOut[1])

\* C19 (amended): for every threshold above 0.0 and up to 1.0 a name without
\* an entry never appears in the output; at threshold 0.0 it counts as 0.0,
\* which is not below the threshold, and is kept.
C19_MissingDroppedAboveZero ==
    callPc \in {"filtered", "refiltered"}
    => \A n \in Range(callArgs.ingredients) :
          n \notin DOMAIN callArgs.confidence_scores
          => IF callArgs.threshold > 0
             THEN n \notin Range(callOut[1])
             ELSE n \in Range(callOut[1])

\* unknown has no score and is dropped at threshold 0.7; tomato is kept.
C19_Witness ==
    /\ callPc = "filtered"
    /\ callArgs = [ingredients |-> <<"tomato", "unknown">>,
                   confidence_scores |-> Scores1("tomato", 95),
                   threshold |-> 70]
    /\ callOut = << <<"tomato">> >>

\* C20: in every constructed IngredientDetectionOutput each name of
\* ingredients can be looked up in confidence_scores and has a score in
\* (0.0, 1.0]; extra keys are allowed; the construction fails when a listed
\* ingredient has no entry.
C20_EveryIngredientHasScore ==
    callPc = "constructed"
    => LET out == callOut[1]
           L == callArgs.ingredients
           C == callArgs.confidence_scores
       IN  /\ out # None
                => \A n \in Range(out.ingredients) :
                      /\ n \in DOMAIN out.confidence_scores
                      /\ out.confidence_scores[n] > 0
                      /\ out.confidence_scores[n] <= 100
           /\ (\E n \in Range(L) :
                  \A k \in DOMAIN C : Lower(Strip(k)) # Lower(Strip(n)))
                => out = None

\* C22: a buffer passes format validation exactly when its leading bytes
\* carry a JPEG or PNG signature (an empty buffer and any other signature
\* fail), and passes size validation exactly when its length is at most
\* MAX_IMAGE_SIZE_MB * 1024 * 1024: the maximum itself is valid, one byte
\* more is too large.
C22_ValidationResult ==
    callPc = "validated"
    => /\ callOut[1] = (callArgs.buffer.sig \in {"jpeg", "png"})
       /\ callArgs.buffer.len = 0 => ~callOut[1]
       /\ callOut[2] = (callArgs.buffer.len <= callArgs.max_mb * 1024 * 1024)
       /\ callArgs.buffer.len = callArgs.max_mb * 1024 * 1024 => callOut[2]
       /\ callArgs.buffer.len = callArgs.max_mb * 1024 * 1024 + 1 => ~callOut[2]

C22_Witness ==
    /\ callPc = "validated"
    /\ callArgs.buffer = Bytes("png", 5 * 1024 * 1024)
    /\ callArgs.max_mb = 5
    /\ callOut = <<TRUE, TRUE>>

\* The JSON objects of the required structure in a text.
ValidObjects(text) ==
    {i \in DOMAIN text :
        /\ text[i].t = "json"
        /\ IngredientDetectionOutput(text[i].ingredients, text[i].confidence_scores,
                                     Get(text[i], "image_description", None)) # None}

\* One JSON object of the required structure, and prose around it.
OneObjectInProse(text) ==
    /\ Cardinality(ValidObjects(text)) = 1
    /\ \A i \in DOMAIN text : text[i].t = "json" => i \in ValidObjects(text)

\* C25: a response text made of one JSON object of the required structure
\* with arbitrary prose before and/or after it parses to the typed result
\* of that object; the parse gives None only when the text holds no object
\* of the required structure.
C25_LenientParse ==
    callPc = "parsed"
    => /\ OneObjectInProse(callArgs.response_text)
          => LET i == CHOOSE i \in ValidObjects(callArgs.response_text) : TRUE
                 obj == callArgs.response_text[i]
             IN  callOut[1] = IngredientDetectionOutput(
                                  obj.ingredients, obj.confidence_scores,
                                  Get(obj, "image_description", None))
       /\ callOut[1] = None
          => ~OneObjectInProse(callArgs.response_text)

\* ================================================ claims: SpoonacularMCP

\* The delay of the i-th sleep (counted from 1).
ExpectedDelay(i) ==
    IF i <= Len(retry_delays) THEN retry_delays[i] ELSE 4

\* C26: when the k-th connection attempt is the first to succeed,
\* initialize returns after exactly k attempts and k-1 sleeps, the i-th
\* sleep lasting retry_delays[i] or 4 beyond the list; when all
\* max_retries attempts fail it raises ConnectionError after exactly
\* max_retries attempts, with no sleep after the last one.
C26_InitializeRetries ==
    /\ \A i \in DOMAIN mcpSleeps : mcpSleeps[i] = ExpectedDelay(i)
    /\ \A i \in DOMAIN connectLog :
          connectLog[i] = "ok" => (i = Len(connectLog) /\ mcpPc = "returned")
    /\ mcpPc = "returned"
       => /\ connectLog[Len(connectLog)] = "ok"
          /\ Len(connectLog) <= mcp_max_retries
          /\ Len(mcpSleeps) = Len(connectLog) - 1
          /\ mcpError = "none"
    /\ mcpPc = "raised"
       => /\ mcpError = "ConnectionError"
          /\ Len(connectLog) = mcp_max_retries
          /\ \A i \in DOMAIN connectLog : connectLog[i] # "ok"
          /\ Len(mcpSleeps) = (IF mcp_max_retries = 0 THEN 0 ELSE mcp_max_retries - 1)

C26_Witness ==
    /\ mcpPc = "returned"
    /\ retry_delays = <<5>>
    /\ connectLog = <<"ConnectionError", "ConnectionError", "ok">>
    /\ mcpSleeps = <<5, 4>>

\* ======================================== claims: track_state_tool_hook

\* C27: once tool_call_count has reached TOOL_CALL_LIMIT, an invocation of
\* the hook does not run the wrapped function and ends in RetryAgentRun;
\* over any sequence of invocations the wrapped functions run at most
\* TOOL_CALL_LIMIT times.
C27_LimitEnforced ==
    /\ (hookCalls > 0 /\ trackLast.count_before >= TOOL_CALL_LIMIT)
       => /\ trackLast.ran = 0
          /\ trackLast.outcome = "raised"
          /\ trackLast.error = "RetryAgentRun"
    /\ executions <= TOOL_CALL_LIMIT

\* C28: an invocation under the limit runs the wrapped function exactly
\* once, whether it returns or raises, and raises tool_call_count by
\* exactly 1.
C28_ExecutedOnce ==
    (hookCalls > 0 /\ trackLast.count_before < TOOL_CALL_LIMIT)
    => /\ trackLast.ran = 1
       /\ tool_call_count = trackLast.count_before + 1

====
